---- MODULE Spec2Model ----
(***************************************************************************)
(* The object graph and I/O engine of the console concentrator daemon      *)
(* (server-obj.c): objects with a circular buffer, writer/readers links,   *)
(* link / steal / close / destroy, read_from_obj / write_to_obj.           *)
(***************************************************************************)
EXTENDS Integers, Sequences, FiniteSets, TLC

\* Size of an object's circular buffer (server.h; scaled down for checking).
MAX_BUF_SIZE == 3
\* Length of the "stolen by" notice create_obj_link() writes (scaled down).
NoticeLen == 2
\* Length of the session header open_obj() writes to a logfile (scaled down).
HeaderLen == 1

CONSOLE == "CONSOLE"
LOGFILE == "LOGFILE"
SOCKET == "SOCKET"
NULL == "NULL"

Sockets == {"S1", "S2"}
Objs == {"C", "L"} \cup Sockets

\* enum obj_type of each object the model allocates
TypeOf(o) == IF o = "C" THEN CONSOLE ELSE IF o = "L" THEN LOGFILE ELSE SOCKET

\* the descriptor a socket is created with / a logfile is opened on
FdOf(o) == IF o = "C" THEN 3 ELSE IF o = "L" THEN 4 ELSE IF o = "S1" THEN 5 ELSE 6

MIN(a, b) == IF a < b THEN a ELSE b

Threads == {"t1", "t2"}

VARIABLES
    objs,      \* the heap: obj_t of every object
    crashed,   \* the process died (NULL dereference, failed assert, fatal UB)
    ev,        \* what the last operation did, in order (calls, log notices)
    op,        \* the last operation invoked and its arguments
    pc,        \* per thread: position inside the operation it runs
    tl,        \* per thread: the locals of the operation it runs
    bufLock,   \* per object: the thread holding its bufLock, or NULL
    nops,      \* the operations handed to the threads so far
    wire,      \* per object: the bytes its descriptor accepted, in order, and
               \* whether its buffer ever dropped bytes (overrun, EPIPE flush)
    procs,     \* per process started on the configuration file: how far its
               \* start-up got, its descriptor on the file, the lock it holds
    conf       \* the server_conf_t being filled in, and the parser's position

vars == <<objs, crashed, ev, op, pc, tl, bufLock, nops, wire, procs, conf>>

\* create_obj(): fd = -1, gotEOF = 0, empty buffer, no writer, no readers.
\* life: "unborn" (not yet malloc'ed), "live", "freed" (after destroy_obj).
create_obj(o, life) ==
    [ type      |-> TypeOf(o),
      fd        |-> -1,
      gotEOF    |-> FALSE,
      bufInPtr  |-> 0,
      bufOutPtr |-> 0,
      buf       |-> [i \in 0..(MAX_BUF_SIZE - 1) |-> 0],
      writer    |-> NULL,
      readers   |-> <<>>,
      life      |-> life ]

\* one entry of the ev log: what happened, to which object, a number (length,
\* descriptor, depth), and the object's gotEOF flag at that moment
Ev(e, o, n, eof) == [e |-> e, o |-> o, n |-> n, eof |-> eof]

\* the state an operation transforms
Heap(os, cr, evs) == [objs |-> os, crashed |-> cr, ev |-> evs]

\* the record kept of the last operation: its name, its (up to two) object
\* arguments, the bytes handed to it, and what the system call in it answered
Op(name, a, b, data, errno) ==
    [name |-> name, a |-> a, b |-> b, data |-> data, errno |-> errno]
NoOp == Op("none", NULL, NULL, <<>>, "none")

\* the locals of the operation a thread runs: the object it works on, the
\* arguments of the enclosing read_from_obj / create_obj_link, the bytes in
\* hand, the list iterator, the outcome of an emptiness test, and where the
\* current call returns to
Locals(obj, src, dst, data, iter, empty, ret) ==
    [obj |-> obj, src |-> src, dst |-> dst, data |-> data, iter |-> iter,
     empty |-> empty, ret |-> ret]
NoLocals == Locals(NULL, NULL, NULL, <<>>, 0, FALSE, "idle")

\* nothing written to any descriptor yet
NoWire == [o \in Objs |-> [sent |-> <<>>, lossy |-> FALSE]]

\* the processes that may be started on one configuration file
Procs == {"p1", "p2", "p3"}

\* a process not started: no descriptor on the file (conf->fd = -1), no lock
Proc(at, kill, fd, rdlock) == [at |-> at, kill |-> kill, fd |-> fd, rdlock |-> rdlock]
NoProc == Proc("off", FALSE, -1, FALSE)
NoProcs == [p \in Procs |-> NoProc]

\* no configuration being parsed
NoConf == [state |-> "none"]

-----------------------------------------------------------------------------
(* write_obj_data(): the circular-buffer producer                          *)

\* lines 476-482: bytes "available" before data is overwritten
WodAvail(in, out) ==
    IF out = in THEN MAX_BUF_SIZE - 1
    ELSE IF out > in THEN out - in
    ELSE (MAX_BUF_SIZE - in) + out

\* memcpy(dst = &buf[at], src[from .. from+cnt-1], cnt)
Memcpy(buf, at, src, from, cnt) ==
    [i \in DOMAIN buf |->
        IF i >= at /\ i < at + cnt THEN src[from + (i - at)] ELSE buf[i]]

\* write_obj_data without the wrap of the in index at the end of the buffer
WodObj_NoWrap(obj, src) ==
    LET len == IF Len(src) >= MAX_BUF_SIZE THEN MAX_BUF_SIZE - 1 ELSE Len(src)
        m   == MIN(len, MAX_BUF_SIZE - obj.bufInPtr)
    IN  [ obj  |-> [obj EXCEPT !.buf = Memcpy(obj.buf, obj.bufInPtr, src, 1, m),
                               !.bufInPtr = obj.bufInPtr + m],
          len  |-> len,
          over |-> 0 ]

\* lines 453-523 on one obj_t; returns the new obj_t and the overwrite notice
\* (k > 0: "[name] overwrote k bytes" was logged; 0: no notice).
WodObj(obj, src) ==
    IF Len(src) <= 0 THEN [obj |-> obj, len |-> 0, over |-> 0]
    ELSE
    LET len   == IF Len(src) >= MAX_BUF_SIZE THEN MAX_BUF_SIZE - 1 ELSE Len(src)
        in0   == obj.bufInPtr
        out0  == obj.bufOutPtr
        avail == WodAvail(in0, out0)
        m     == MIN(len, MAX_BUF_SIZE - in0)
        buf1  == IF m > 0 THEN Memcpy(obj.buf, in0, src, 1, m) ELSE obj.buf
        in1   == IF m > 0
                 THEN (IF in0 + m = MAX_BUF_SIZE THEN 0 ELSE in0 + m)
                 ELSE in0
        n     == IF m > 0 THEN len - m ELSE len
        buf2  == IF n > 0 THEN Memcpy(buf1, in1, src, m + 1, n) ELSE buf1
        in2   == IF n > 0 THEN in1 + n ELSE in1
        out2  == IF len > avail
                 THEN (IF in2 + 1 = MAX_BUF_SIZE THEN 0 ELSE in2 + 1)
                 ELSE out0
    IN  [ obj  |-> [obj EXCEPT !.buf = buf2, !.bufInPtr = in2, !.bufOutPtr = out2],
          len  |-> len,
          over |-> IF len > avail THEN len - avail ELSE 0 ]

\* the bytes retrievable from an object's buffer: from out up to in, wrapping
Occupancy(obj) == (obj.bufInPtr - obj.bufOutPtr) % MAX_BUF_SIZE

Readable(obj) ==
    [k \in 1..Occupancy(obj) |-> obj.buf[(obj.bufOutPtr + k - 1) % MAX_BUF_SIZE]]

-----------------------------------------------------------------------------
(* The environment's choices within one operation.                         *)
(*   top:    the value the uninitialized local `reader` of close_obj holds *)
(*           at line 229 when obj->writer was NULL, in the outermost frame *)
(*   nested: the same in a frame called from within close_obj; such a      *)
(*           frame has an empty readers list (lines 218, 232), so all that *)
(*           matters is whether the value is NULL                          *)
(*   uaf:    TRUE if touching freed memory kills the process, FALSE if the *)
(*           stale contents are still there and execution goes on          *)
(*   open:   TRUE if open(2) of a logfile succeeds                         *)
GARBAGE == "GARBAGE"
Oracles ==
    [top : Objs \cup {NULL}, nested : {NULL, GARBAGE}, uaf : BOOLEAN, open : BOOLEAN]

LogEv(h, e) == [h EXCEPT !.ev = Append(@, e)]

Crash(h, why, o) ==
    [h EXCEPT !.crashed = TRUE, !.ev = Append(@, Ev(why, o, 0, FALSE))]

\* any access through a pointer to an obj_t: undefined if destroy_obj freed it
Deref(h, o, orc) ==
    IF h.objs[o].life = "freed"
    THEN [h EXCEPT !.ev = Append(@, Ev("use_after_free", o, 0, FALSE)),
                   !.crashed = orc.uaf]
    ELSE h

\* write_obj_data(obj, src, len), lines 444-524
write_obj_data(h, o, src, orc) ==
    IF h.crashed \/ Len(src) <= 0 THEN h
    ELSE
    LET h1 == Deref(h, o, orc)
        r  == WodObj(h1.objs[o], src)
        e1 == Ev("write_obj_data", o, r.len, h1.objs[o].gotEOF)
        e2 == Ev("overwrote", o, r.over, h1.objs[o].gotEOF)
    IN  IF h1.crashed THEN h1
        ELSE [h1 EXCEPT !.objs[o] = r.obj,
                        !.ev = IF r.over > 0 THEN @ \o <<e1, e2>> ELSE Append(@, e1)]

\* destroy_obj(obj), lines 127-168
destroy_obj(h, o, orc) ==
    IF h.crashed THEN h
    ELSE
    LET h0 == LogEv(h, Ev("destroy_obj", o, 0, h.objs[o].gotEOF))
        ob == h0.objs[o]
    IN  IF ob.bufInPtr # ob.bufOutPtr
        THEN Crash(h0, "assert_failed", o)
        ELSE
        LET h1 == IF ob.fd >= 0
                  THEN LogEv([h0 EXCEPT !.objs[o].fd = -1],
                             Ev("close_fd", o, ob.fd, ob.gotEOF))
                  ELSE h0
        IN  [h1 EXCEPT !.objs[o].readers = <<>>, !.objs[o].life = "freed"]

\* the bytes of the notice and of the header (their wording does not matter)
Notice == [i \in 1..NoticeLen |-> 9]
Header == [i \in 1..HeaderLen |-> 8]

\* open_obj(obj), lines 171-199; called with obj->fd < 0
open_obj(h, o, orc) ==
    IF h.crashed THEN h
    ELSE
    LET h0 == LogEv(h, Ev("open_obj", o, 0, h.objs[o].gotEOF))
    IN  IF h0.objs[o].type = LOGFILE
        THEN IF orc.open
             THEN write_obj_data([h0 EXCEPT !.objs[o].fd = FdOf(o)], o, Header, orc)
             ELSE h0
        ELSE h0

\* position of the first occurrence of x in the list s, 0 if absent
IndexOf(s, x) ==
    IF \E k \in 1..Len(s) : s[k] = x
    THEN CHOOSE k \in 1..Len(s) : s[k] = x /\ \A j \in 1..(k - 1) : s[j] # x
    ELSE 0

\* list_delete(i): remove the item list_next(i) returned last
ListDelete(s, k) == [j \in 1..(Len(s) - 1) |-> IF j < k THEN s[j] ELSE s[j + 1]]

RECURSIVE close_obj(_, _, _, _)
RECURSIVE CloseReaders(_, _, _, _, _)
RECURSIVE CloseGraph(_, _, _, _)

\* the writer side of close_obj closing the writer as soon as its readers
\* list is empty, whether or not it has a writer of its own
CloseWriter_NoWriterTest(h, obj, orc, d) ==
    LET w == h.objs[obj].writer
    IN  IF w = NULL
        THEN [h |-> h, reader |-> IF d = 0 THEN orc.top ELSE orc.nested]
        ELSE
        LET hW == Deref(h, w, orc)
            k  == IndexOf(hW.objs[w].readers, obj)
        IN  IF hW.crashed \/ k = 0
            THEN [h |-> hW, reader |-> NULL]
            ELSE
            LET hD == [hW EXCEPT !.objs[w].readers = ListDelete(@, k)]
                hC == IF hD.objs[w].readers = <<>>
                      THEN close_obj(hD, w, orc, d + 1)
                      ELSE hD
                hN == IF hC.crashed THEN hC
                      ELSE [hC EXCEPT !.objs[obj].writer = NULL]
                \* list_iterator_destroy(i) walks the writer's list
                hI == IF hN.crashed THEN hN ELSE Deref(hN, w, orc)
            IN  [h |-> hI, reader |-> obj]

\* close_obj lines 211-225: remove the link between my writer and me.
\* Returns the heap and the value of the local `reader` afterwards.
CloseWriter(h, obj, orc, d) ==
    LET w == h.objs[obj].writer
    IN  IF w = NULL
        THEN [h |-> h, reader |-> IF d = 0 THEN orc.top ELSE orc.nested]
        ELSE
        LET hW == Deref(h, w, orc)
            k  == IndexOf(hW.objs[w].readers, obj)
        IN  IF hW.crashed \/ k = 0
            THEN [h |-> hW, reader |-> NULL]
            ELSE
            LET hD == [hW EXCEPT !.objs[w].readers = ListDelete(@, k)]
                hC == IF hD.objs[w].writer = NULL /\ hD.objs[w].readers = <<>>
                      THEN close_obj(hD, w, orc, d + 1)
                      ELSE hD
                hN == IF hC.crashed THEN hC
                      ELSE [hC EXCEPT !.objs[obj].writer = NULL]
                \* list_iterator_destroy(i) walks the writer's list
                hI == IF hN.crashed THEN hN ELSE Deref(hN, w, orc)
            IN  [h |-> hI, reader |-> obj]

\* close_obj lines 229-235: while ((reader == list_pop(obj->readers))) {...}
CloseReaders(h, obj, reader, orc, d) ==
    IF h.crashed THEN h
    ELSE
    LET rs     == h.objs[obj].readers
        popped == IF rs = <<>> THEN NULL ELSE Head(rs)
        h1     == IF rs = <<>> THEN h ELSE [h EXCEPT !.objs[obj].readers = Tail(rs)]
    IN  IF reader # popped THEN h1
        ELSE IF reader = NULL THEN Crash(h1, "null_deref", obj)
        ELSE
        LET hR == Deref(h1, reader, orc)
            hB == IF hR.crashed THEN hR
                  ELSE IF hR.objs[reader].writer = obj
                  THEN LET hc == [hR EXCEPT !.objs[reader].writer = NULL]
                       IN  IF hc.objs[reader].readers = <<>>
                           THEN close_obj(hc, reader, orc, d + 1)
                           ELSE hc
                  ELSE hR
        IN  CloseReaders(hB, obj, reader, orc, d)

\* close_obj lines 211-235: the graph part, with the closes it calls
CloseGraph(h, obj, orc, d) ==
    IF h.crashed THEN h
    ELSE
    LET h0 == Deref(LogEv(h, Ev("close_obj", obj, d, h.objs[obj].gotEOF)), obj, orc)
        p  == CloseWriter(h0, obj, orc, d)
    IN  IF h0.crashed THEN h0 ELSE CloseReaders(p.h, obj, p.reader, orc, d)

\* CloseBuffer with the deferral forgotten: the descriptor is closed (and a
\* socket destroyed) whether or not the buffer still holds data
CloseBuffer_NoDefer(h, obj, empty, orc) ==
    IF h.crashed THEN h
    ELSE
    LET ob == h.objs[obj]
        h1 == [h EXCEPT !.objs[obj].gotEOF = FALSE, !.objs[obj].fd = -1]
    IN  IF ob.type = SOCKET
        THEN [h1 EXCEPT !.objs[obj].readers = <<>>, !.objs[obj].life = "freed"]
        ELSE h1

\* close_obj that closes the descriptor but leaves its number in obj->fd
CloseBuffer_KeepFd(h, obj, empty, orc) ==
    IF h.crashed THEN h
    ELSE IF ~empty
    THEN [h EXCEPT !.objs[obj].gotEOF = TRUE]
    ELSE
    LET ob == h.objs[obj]
        h1 == [h EXCEPT !.objs[obj].gotEOF = FALSE]
        h2 == IF ob.fd >= 0
              THEN LogEv(h1, Ev("close_fd", obj, ob.fd, FALSE))
              ELSE h1
    IN  IF ob.type = SOCKET THEN destroy_obj(h2, obj, orc) ELSE h2

\* close_obj lines 239-251: defer (gotEOF) or close the descriptor (and destroy)
CloseBuffer(h, obj, empty, orc) ==
    IF h.crashed THEN h
    ELSE IF ~empty
    THEN [h EXCEPT !.objs[obj].gotEOF = TRUE]
    ELSE
    LET ob == h.objs[obj]
        h1 == [h EXCEPT !.objs[obj].gotEOF = FALSE]
        h2 == IF ob.fd >= 0
              THEN LogEv([h1 EXCEPT !.objs[obj].fd = -1],
                         Ev("close_fd", obj, ob.fd, FALSE))
              ELSE h1
    IN  IF ob.type = SOCKET THEN destroy_obj(h2, obj, orc) ELSE h2

BufEmpty(h, obj) == h.objs[obj].bufInPtr = h.objs[obj].bufOutPtr

\* close_obj(obj), lines 202-253
close_obj(h, obj, orc, d) ==
    LET hG == CloseGraph(h, obj, orc, d)
    IN  CloseBuffer(hG, obj, BufEmpty(hG, obj), orc)

\* create_obj_link lines 291-302: make the link, make both ends "active"
LinkEdges(h, src, dst, orc) ==
    LET hL == IF h.crashed THEN h
              ELSE [h EXCEPT !.objs[dst].writer = src,
                             !.objs[src].readers = Append(@, dst)]
        h1 == IF ~hL.crashed /\ hL.objs[src].fd < 0 THEN open_obj(hL, src, orc) ELSE hL
    IN  IF ~h1.crashed /\ h1.objs[dst].fd < 0 THEN open_obj(h1, dst, orc) ELSE h1

\* create_obj_link with the incumbent writer notified but not closed
create_obj_link_NoClose(h, src, dst, orc) ==
    LET w  == h.objs[dst].writer
        hS == IF w # NULL THEN write_obj_data(h, w, Notice, orc) ELSE h
    IN  LinkEdges(hS, src, dst, orc)

\* create_obj_link with the incumbent writer closed before it is notified
create_obj_link_CloseFirst(h, src, dst, orc) ==
    LET w  == h.objs[dst].writer
        hS == IF w # NULL
              THEN write_obj_data(close_obj(h, w, orc, 0), w, Notice, orc)
              ELSE h
    IN  LinkEdges(hS, src, dst, orc)

\* create_obj_link(src, dst), lines 271-305
create_obj_link(h, src, dst, orc) ==
    LET w  == h.objs[dst].writer
        hS == IF w # NULL
              THEN close_obj(write_obj_data(h, w, Notice, orc), w, orc, 0)
              ELSE h
    IN  LinkEdges(hS, src, dst, orc)

\* write_to_obj lines 334-337: the contiguous run write(2) is offered
WtoAvail(ob) ==
    IF ob.bufInPtr >= ob.bufOutPtr
    THEN ob.bufInPtr - ob.bufOutPtr
    ELSE MAX_BUF_SIZE - ob.bufOutPtr

\* what write(2) can answer when offered avail > 0 bytes (EINTR is retried):
\* n bytes accepted, or -1 with errno EPIPE, EAGAIN/EWOULDBLOCK, or another
WriteResults(avail) ==
    {[n |-> k, errno |-> "none"] : k \in 1..avail}
        \cup {[n |-> -1, errno |-> e] : e \in {"EPIPE", "EAGAIN", "EIO"}}

\* write_to_obj that leaves bufOutPtr where it was after a successful write
WtoLocked_NoAdvance(h, obj, res) ==
    LET ob == h.objs[obj]
    IN  IF WtoAvail(ob) <= 0 THEN h
        ELSE IF res.n < 0 /\ res.errno = "EPIPE"
        THEN [h EXCEPT !.objs[obj].gotEOF = TRUE,
                       !.objs[obj].bufInPtr = 0,
                       !.objs[obj].bufOutPtr = 0]
        ELSE IF res.n < 0 /\ res.errno = "EAGAIN" THEN h
        ELSE IF res.n < 0 THEN Crash(h, "err_msg", obj)
        ELSE IF res.n > 0
        THEN LogEv(h, Ev("write", obj, res.n, ob.gotEOF))
        ELSE h

\* write_to_obj that marks EOF on EPIPE but keeps the buffered bytes
WtoLocked_KeepOnEpipe(h, obj, res) ==
    LET ob == h.objs[obj]
    IN  IF WtoAvail(ob) <= 0 THEN h
        ELSE IF res.n < 0 /\ res.errno = "EPIPE"
        THEN [h EXCEPT !.objs[obj].gotEOF = TRUE]
        ELSE IF res.n < 0 /\ res.errno = "EAGAIN" THEN h
        ELSE IF res.n < 0 THEN Crash(h, "err_msg", obj)
        ELSE IF res.n > 0
        THEN LogEv([h EXCEPT !.objs[obj].bufOutPtr =
                        IF @ + res.n = MAX_BUF_SIZE THEN 0 ELSE @ + res.n],
                   Ev("write", obj, res.n, ob.gotEOF))
        ELSE h

\* write_to_obj lines 339-363, under the bufLock: res is write(2)'s answer
WtoLocked(h, obj, res) ==
    LET ob == h.objs[obj]
    IN  IF WtoAvail(ob) <= 0 THEN h
        ELSE IF res.n < 0 /\ res.errno = "EPIPE"
        THEN [h EXCEPT !.objs[obj].gotEOF = TRUE,
                       !.objs[obj].bufInPtr = 0,
                       !.objs[obj].bufOutPtr = 0]
        ELSE IF res.n < 0 /\ res.errno = "EAGAIN" THEN h
        ELSE IF res.n < 0 THEN Crash(h, "err_msg", obj)
        ELSE IF res.n > 0
        THEN LogEv([h EXCEPT !.objs[obj].bufOutPtr =
                        IF @ + res.n = MAX_BUF_SIZE THEN 0 ELSE @ + res.n],
                   Ev("write", obj, res.n, ob.gotEOF))
        ELSE h

\* write_to_obj(obj), lines 308-381; called with obj->fd >= 0
write_to_obj(h, obj, res, orc) ==
    LET h1 == WtoLocked(h, obj, res)
    IN  IF ~h1.crashed /\ h1.objs[obj].gotEOF /\ BufEmpty(h1, obj)
        THEN close_obj(h1, obj, orc, 0)
        ELSE h1

\* a fan-out that does not look at gotEOF
RECURSIVE FanOut_All(_, _, _, _)
FanOut_All(h, rs, data, orc) ==
    IF h.crashed \/ rs = <<>> THEN h
    ELSE FanOut_All(write_obj_data(Deref(h, Head(rs), orc), Head(rs), data, orc),
                    Tail(rs), data, orc)

\* read_from_obj lines 421-426: hand the bytes to every reader not at EOF
RECURSIVE FanOut(_, _, _, _)
FanOut(h, rs, data, orc) ==
    IF h.crashed \/ rs = <<>> THEN h
    ELSE
    LET r  == Head(rs)
        h1 == Deref(h, r, orc)
        h2 == IF h1.crashed \/ h1.objs[r].gotEOF THEN h1
              ELSE write_obj_data(h1, r, data, orc)
    IN  FanOut(h2, Tail(rs), data, orc)

\* read_from_obj(obj), lines 384-430; called with obj->fd >= 0.
\* res is read(2)'s answer: the bytes read (none at EOF), or -1 with an errno.
read_from_obj(h, obj, res, orc) ==
    IF res.n < 0 /\ res.errno = "EAGAIN" THEN h
    ELSE IF res.n < 0 THEN Crash(h, "err_msg", obj)
    ELSE IF res.n = 0 THEN close_obj(h, obj, orc, 0)
    ELSE FanOut(h, h.objs[obj].readers, res.data, orc)

\* create_socket_obj(user, host, sd), lines 67-90
create_socket_obj(o) == [create_obj(o, "live") EXCEPT !.fd = FdOf(o)]

-----------------------------------------------------------------------------
(* The operations as the dispatcher, the accept loop and the configuration *)
(* parser invoke them, one at a time.                                      *)

\* all byte strings over B of length lo..hi
RECURSIVE SeqsOf(_, _)
SeqsOf(B, n) ==
    IF n = 0 THEN {<<>>}
    ELSE {Append(q, b) : q \in SeqsOf(B, n - 1), b \in B}
Strings(B, lo, hi) == UNION {SeqsOf(B, n) : n \in lo..hi}

\* what read(2) into a buffer of MAX_BUF_SIZE - 1 bytes can answer
ReadResults(B) ==
    {[n |-> Len(d), errno |-> "none", data |-> d] : d \in Strings(B, 0, MAX_BUF_SIZE - 1)}
        \cup {[n |-> -1, errno |-> e, data |-> <<>>] : e \in {"EAGAIN", "EIO"}}

\* the bytes clients type (one value: the graph, not the contents, is at stake)
NetBytes == {1}

Start == Heap(objs, crashed, <<>>)

Apply(h, o) ==
    /\ objs' = h.objs
    /\ crashed' = h.crashed
    /\ ev' = h.ev
    /\ op' = o
    /\ UNCHANGED <<pc, tl, bufLock, nops, wire, procs, conf>>

Live(o) == objs[o].life = "live"

\* the oracles that can make a difference to an operation: `closes` if it may
\* call close_obj, `opens` if it may open a logfile
OraclesFor(closes, opens) ==
    {orc \in Oracles :
        /\ (~closes => orc.top = NULL /\ orc.nested = NULL)
        /\ (~opens => orc.open)
        /\ ((\A o \in Objs : objs[o].life # "freed") => ~orc.uaf)}

\* What callers of create_obj_link respect: the asserts of lines 279-281, the
\* variant rules of the data model, and that a socket is linked while it is
\* an open connection.
LinkAllowed(src, dst) ==
    /\ src # dst /\ Live(src) /\ Live(dst)
    /\ IndexOf(objs[src].readers, dst) = 0
    /\ \/ TypeOf(src) = SOCKET /\ TypeOf(dst) = CONSOLE
       \/ TypeOf(src) = CONSOLE /\ TypeOf(dst) = SOCKET
       \/ TypeOf(src) = CONSOLE /\ TypeOf(dst) = LOGFILE
    /\ objs[dst].writer # NULL =>
          /\ TypeOf(src) = SOCKET /\ TypeOf(dst) = CONSOLE
          /\ TypeOf(objs[dst].writer) = SOCKET
          /\ objs[dst].writer # src
    /\ TypeOf(src) = SOCKET =>
          objs[src].readers = <<>> /\ objs[src].fd >= 0 /\ ~objs[src].gotEOF
    /\ TypeOf(dst) = SOCKET => objs[dst].fd >= 0 /\ ~objs[dst].gotEOF

CreateSocket(s) ==
    /\ ~crashed
    /\ objs[s].life = "unborn"
    /\ objs' = [objs EXCEPT ![s] = create_socket_obj(s)]
    /\ ev' = <<>>
    /\ op' = Op("create_socket_obj", s, NULL, <<>>, "none")
    /\ UNCHANGED <<crashed, pc, tl, bufLock, nops, wire, procs, conf>>

Link(src, dst) ==
    /\ ~crashed
    /\ LinkAllowed(src, dst)
    /\ \E orc \in OraclesFor(objs[dst].writer # NULL,
                               TypeOf(dst) = LOGFILE /\ objs[dst].fd < 0) :
          Apply(create_obj_link(Start, src, dst, orc),
                Op("create_obj_link", src, dst, <<>>, "none"))

Close(o) ==
    /\ ~crashed
    /\ Live(o)
    /\ \E orc \in OraclesFor(TRUE, FALSE) :
          Apply(close_obj(Start, o, orc, 0), Op("close_obj", o, NULL, <<>>, "none"))

ReadFrom(o) ==
    /\ ~crashed
    /\ Live(o) /\ objs[o].fd >= 0 /\ TypeOf(o) # LOGFILE
    /\ \E res \in ReadResults(NetBytes) :
       \E orc \in OraclesFor(res.n = 0, FALSE) :
          Apply(read_from_obj(Start, o, res, orc),
                Op("read_from_obj", o, NULL, res.data, res.errno))

WriteTo(o) ==
    /\ ~crashed
    /\ Live(o) /\ objs[o].fd >= 0
    /\ \E res \in WriteResults(WtoAvail(objs[o])) :
       \E orc \in OraclesFor(objs[o].gotEOF \/ res.errno = "EPIPE", FALSE) :
          Apply(write_to_obj(Start, o, res, orc),
                Op("write_to_obj", o, NULL, <<>>, res.errno))

\* The objects the configuration parser created: those of `configured` exist
\* (closed, unlinked); sockets are created later, by the accept loop.
InitObjs(configured) ==
    [o \in Objs |-> create_obj(o, IF o \in configured THEN "live" ELSE "unborn")]

\* a configuration with the console and no LOG= option
Init ==
    /\ objs = InitObjs({"C"})
    /\ crashed = FALSE
    /\ ev = <<>>
    /\ op = NoOp
    /\ pc = [t \in Threads |-> "idle"]
    /\ tl = [t \in Threads |-> NoLocals]
    /\ bufLock = [o \in Objs |-> NULL]
    /\ nops = 0
    /\ wire = NoWire
    /\ procs = NoProcs
    /\ conf = NoConf

Next ==
    \/ \E s \in Sockets : CreateSocket(s)
    \/ \E src \in Objs, dst \in Objs : Link(src, dst)
    \/ \E o \in Objs : Close(o)
    \/ \E o \in Objs : ReadFrom(o)
    \/ \E o \in Objs : WriteTo(o)

Spec == Init /\ [][Next]_vars

-----------------------------------------------------------------------------
(* write_obj_data as a function of the buffer: every buffer state, every    *)
(* string of at most MAX_BUF_SIZE bytes.                                    *)

\* bytes already in the buffer, bytes appended
OldBytes == {0, 1}
NewBytes == {2, 3}

NoOrc == [top |-> GARBAGE, nested |-> GARBAGE, uaf |-> FALSE, open |-> TRUE]

InitBuf ==
    /\ \E in \in 0..(MAX_BUF_SIZE - 1), out \in 0..(MAX_BUF_SIZE - 1) :
       \E b \in [0..(MAX_BUF_SIZE - 1) -> OldBytes] :
          objs = [InitObjs({"C"}) EXCEPT !["C"].bufInPtr = in,
                                         !["C"].bufOutPtr = out,
                                         !["C"].buf = b]
    /\ crashed = FALSE
    /\ ev = <<>>
    /\ op = NoOp
    /\ pc = [t \in Threads |-> "idle"]
    /\ tl = [t \in Threads |-> NoLocals]
    /\ bufLock = [o \in Objs |-> NULL]
    /\ nops = 0
    /\ wire = NoWire
    /\ procs = NoProcs
    /\ conf = NoConf

\* one call write_obj_data(C, data, |data|) on a buffer nothing was appended to yet
WodStep ==
    /\ op = NoOp
    /\ \E data \in Strings(NewBytes, 1, MAX_BUF_SIZE) :
          Apply(write_obj_data(Start, "C", data, NoOrc),
                Op("write_obj_data", "C", NULL, data, "none"))

NextBuf == WodStep

SpecBuf == InitBuf /\ [][NextBuf]_vars

\* the last n elements of a sequence
LastN(q, n) == [k \in 1..n |-> q[Len(q) - n + k]]

\* C9 (round-trip on overrun): after write_obj_data(obj, data) with
\* 1 <= |data| <= MAX_BUF_SIZE - 1, the bytes readable from out up to in end
\* with exactly the bytes of data; in particular the buffer is not empty.
C9_RoundTripOnOverrun ==
    (op.name = "write_obj_data" /\ Len(op.data) <= MAX_BUF_SIZE - 1) =>
        LET r == Readable(objs[op.a])
        IN  /\ Len(r) >= Len(op.data)
            /\ LastN(r, Len(op.data)) = op.data

\* C10 (overwrite accounting): appending L bytes to a buffer holding P bytes
\* leaves min(L + P, MAX_BUF_SIZE - 1) bytes buffered, and an overrun notice is
\* logged exactly when buffered bytes are discarded, reporting L - A, A being
\* the number of bytes that were free.
C10_OverwriteAccounting ==
    [][(op'.name = "write_obj_data" /\ op = NoOp
            /\ Len(op'.data) <= MAX_BUF_SIZE - 1) =>
        LET P == Occupancy(objs[op'.a])
            L == Len(op'.data)
            A == (MAX_BUF_SIZE - 1) - P
            notices == {i \in 1..Len(ev') : ev'[i].e = "overwrote"}
        IN  /\ Occupancy(objs'[op'.a]) = MIN(L + P, MAX_BUF_SIZE - 1)
            /\ (L > A) <=> (notices # {})
            /\ \A i \in notices : ev'[i].n = L - A]_vars

-----------------------------------------------------------------------------
(* Draining after a deferred close: an object that close_obj left with      *)
(* gotEOF set, buffered bytes and its descriptor open, and a dispatcher     *)
(* that keeps calling write_to_obj on it; every write(2) accepts at least   *)
(* one byte or fails with EPIPE.                                            *)

Draining == {"S1", "L"}

InitDrain ==
    /\ \E d \in Draining :
       \E in \in 0..(MAX_BUF_SIZE - 1), out \in 0..(MAX_BUF_SIZE - 1) :
       \E b \in [0..(MAX_BUF_SIZE - 1) -> OldBytes] :
          /\ in # out
          /\ objs = [InitObjs({"C", d}) EXCEPT ![d].bufInPtr = in,
                                               ![d].bufOutPtr = out,
                                               ![d].buf = b,
                                               ![d].fd = FdOf(d),
                                               ![d].gotEOF = TRUE]
    /\ crashed = FALSE
    /\ ev = <<>>
    /\ op = NoOp
    /\ pc = [t \in Threads |-> "idle"]
    /\ tl = [t \in Threads |-> NoLocals]
    /\ bufLock = [o \in Objs |-> NULL]
    /\ nops = 0
    /\ wire = NoWire
    /\ procs = NoProcs
    /\ conf = NoConf

DrainWrite(o) ==
    /\ ~crashed
    /\ Live(o) /\ objs[o].fd >= 0
    /\ \E res \in {r \in WriteResults(WtoAvail(objs[o])) : r.errno \in {"none", "EPIPE"}} :
       \E orc \in OraclesFor(TRUE, FALSE) :
          Apply(write_to_obj(Start, o, res, orc),
                Op("write_to_obj", o, NULL, <<>>, res.errno))

NextDrain == \E o \in Draining : DrainWrite(o)

SpecDrain == InitDrain /\ [][NextDrain]_vars /\ WF_vars(NextDrain)

\* C6 (drain completes): the write_to_obj call that empties the buffer of a
\* draining object also runs close_obj, so that its descriptor is closed and
\* gotEOF cleared (a socket is destroyed); with every write accepting a byte
\* this is reached, also when the data wraps past the end of the array.
C6_DrainCompletes ==
    /\ [](\A o \in Draining :
            (op.name = "write_to_obj" /\ op.a = o /\ BufEmpty(Heap(objs, crashed, ev), o)) =>
                /\ objs[o].fd = -1
                /\ ~objs[o].gotEOF
                /\ (objs[o].type = SOCKET => objs[o].life = "freed"))
    /\ <>(\A o \in Draining : objs[o].life = "live" => objs[o].fd = -1)

-----------------------------------------------------------------------------
(* The object graph.                                                        *)

\* how often x occurs in the list s
Count(s, x) == Cardinality({k \in 1..Len(s) : s[k] = x})

LiveObjs == {o \in Objs : objs[o].life = "live"}

\* C2 (edge symmetry): after every completed operation, for all objects a
\* and b, a.writer == b if and only if a occurs in b.readers, and then it
\* occurs exactly once.
C2_EdgeSymmetry ==
    ~crashed =>
        \A a \in LiveObjs, b \in LiveObjs :
            /\ (objs[a].writer = b) <=> (Count(objs[b].readers, a) > 0)
            /\ Count(objs[b].readers, a) <= 1

\* the sockets that feed console c
Feeders(c) == {s \in Sockets : Count(objs[s].readers, c) > 0}

\* C3 (exclusive write access): each console is fed by at most one socket,
\* and that socket is the console's writer; a read_from_obj on a socket that
\* is not the console's writer (a displaced one) leaves the console's buffer
\* as it was.
C3_ExclusiveWrite ==
    /\ [](\A c \in Objs : TypeOf(c) = CONSOLE =>
            /\ Cardinality(Feeders(c)) <= 1
            /\ \A s \in Feeders(c) : objs[c].writer = s)
    /\ [][\A c \in Objs :
            (/\ TypeOf(c) = CONSOLE
             /\ op'.name = "read_from_obj"
             /\ objs[c].writer # op'.a) =>
                /\ objs'[c].buf = objs[c].buf
                /\ objs'[c].bufInPtr = objs[c].bufInPtr
                /\ objs'[c].bufOutPtr = objs[c].bufOutPtr]_vars

\* a displaced socket, still open, reads bytes while another socket owns the console
C3_Witness ==
    /\ op.name = "read_from_obj" /\ Len(op.data) > 0 /\ ~crashed
    /\ objs[op.a].life = "live" /\ objs[op.a].gotEOF
    /\ objs["C"].writer \in Sockets \ {op.a}
    /\ Feeders("C") = {objs["C"].writer}

\* position of the first entry of the ev log about object o with name e (0: none)
FirstEv(log, e, o) ==
    IF \E k \in 1..Len(log) : log[k].e = e /\ log[k].o = o
    THEN CHOOSE k \in 1..Len(log) :
            /\ log[k].e = e /\ log[k].o = o
            /\ \A j \in 1..(k - 1) : ~(log[j].e = e /\ log[j].o = o)
    ELSE 0

\* C4 (steal sequence): when create_obj_link(S2, C) is called while
\* C.writer == S1, the notice is appended to S1's buffer before close_obj(S1)
\* is invoked, and when the link returns C.writer == S2, C is in S2.readers
\* and S1 is not in C.readers.
C4_StealSequence ==
    [][(/\ op'.name = "create_obj_link"
        /\ objs[op'.b].writer # NULL
        /\ ~crashed') =>
        LET S1 == objs[op'.b].writer
            S2 == op'.a
            c  == op'.b
            w  == FirstEv(ev', "write_obj_data", S1)
            k  == FirstEv(ev', "close_obj", S1)
        IN  /\ w > 0 /\ k > w
            /\ ev'[w].n = MIN(NoticeLen, MAX_BUF_SIZE - 1)
            /\ objs'[c].writer = S2
            /\ Count(objs'[S2].readers, c) = 1
            /\ Count(objs'[c].readers, S1) = 0]_vars

\* a steal from a live writer has completed
C4_Witness ==
    /\ op.name = "create_obj_link" /\ ~crashed
    /\ FirstEv(ev, "close_obj", "S1") > 0
    /\ FirstEv(ev, "use_after_free", "S1") = 0
    /\ op.a = "S2" /\ objs["C"].writer = "S2"
    /\ objs["S1"].gotEOF /\ objs["S1"].life = "live"

\* C5 (deferred close): close_obj on an object whose buffer holds data sets
\* gotEOF, keeps the descriptor, does not destroy the object and leaves in,
\* out and the bytes alone; on an object whose buffer is empty it clears
\* gotEOF, closes the descriptor and destroys the object iff it is a socket.
C5_DeferredClose ==
    [][(op'.name = "close_obj" /\ ~crashed') =>
        LET o == op'.a
        IN  IF objs[o].bufInPtr # objs[o].bufOutPtr
            THEN /\ objs'[o].gotEOF
                 /\ objs'[o].fd = objs[o].fd
                 /\ objs'[o].life = "live"
                 /\ objs'[o].bufInPtr = objs[o].bufInPtr
                 /\ objs'[o].bufOutPtr = objs[o].bufOutPtr
                 /\ objs'[o].buf = objs[o].buf
            ELSE /\ ~objs'[o].gotEOF
                 /\ objs'[o].fd = -1
                 /\ (objs'[o].life = "freed") <=> (objs[o].type = SOCKET)]_vars

\* close_obj was called on an open socket with buffered bytes, and returned
C5_Witness ==
    /\ op.name = "close_obj" /\ ~crashed
    /\ objs[op.a].type = SOCKET /\ objs[op.a].life = "live"
    /\ objs[op.a].gotEOF /\ objs[op.a].fd >= 0
    /\ objs[op.a].bufInPtr # objs[op.a].bufOutPtr


-----------------------------------------------------------------------------
(* The same operations run by threads.  The orchestration thread creates,   *)
(* links and closes objects; the I/O thread services descriptors with       *)
(* read_from_obj and write_to_obj.  A step is a stretch of code between two *)
(* synchronisation points: acquiring bufLock, the critical section up to    *)
(* the unlock, or an access outside any lock.                               *)

OrchThreads == {"t1"}
IOThreads == {"t2"}

\* the operations the two threads are handed, in all
MaxOps == 6
Idle(t) == pc[t] = "idle" /\ nops < MaxOps

\* what a read outside the lock can return: the value, unless another thread
\* is inside the critical section of that buffer (a data race)
RacyRead(t, o, exact) ==
    IF bufLock[o] \notin {NULL, t} THEN BOOLEAN ELSE {exact}

Step(t, h, p, l, lk) ==
    /\ objs' = h.objs
    /\ crashed' = h.crashed
    /\ ev' = h.ev
    /\ op' = op
    /\ pc' = [pc EXCEPT ![t] = p]
    /\ tl' = [tl EXCEPT ![t] = IF p = "idle" THEN NoLocals ELSE l]
    /\ bufLock' = lk
    /\ nops' = IF pc[t] = "idle" THEN nops + 1 ELSE nops
    /\ wire' = wire
    /\ UNCHANGED <<procs, conf>>

\* a critical section that returns without pthread_mutex_unlock
Unlocked_Held(o) == bufLock

Unlocked(o) == [bufLock EXCEPT ![o] = NULL]

UafOracles == OraclesFor(FALSE, FALSE)

\* the accept loop, on the orchestration thread
MT_CreateSocket(t, s) ==
    /\ ~crashed /\ Idle(t) /\ t \in OrchThreads
    /\ objs[s].life = "unborn"
    /\ Step(t, Heap([objs EXCEPT ![s] = create_socket_obj(s)], FALSE, <<>>),
            "idle", NoLocals, bufLock)

\* write_to_obj line 316: called on an object with an open descriptor
MT_WriteTo(t, o) ==
    /\ ~crashed /\ Idle(t) /\ t \in IOThreads
    /\ Live(o) /\ objs[o].fd >= 0
    /\ Step(t, Start, "wto_lock", [NoLocals EXCEPT !.obj = o], bufLock)

\* write_to_obj line 320: pthread_mutex_lock
MT_WtoLock(t) ==
    /\ ~crashed /\ pc[t] = "wto_lock"
    /\ bufLock[tl[t].obj] = NULL
    /\ \E orc \in UafOracles :
          Step(t, Deref(Start, tl[t].obj, orc), "wto_body", tl[t],
               [bufLock EXCEPT ![tl[t].obj] = t])

\* write_to_obj lines 323-369: the critical section, up to the unlock
MT_WtoBody(t) ==
    /\ ~crashed /\ pc[t] = "wto_body"
    /\ \E res \in WriteResults(WtoAvail(objs[tl[t].obj])) :
          Step(t, WtoLocked(Start, tl[t].obj, res), "wto_tail", tl[t],
               Unlocked(tl[t].obj))

\* write_to_obj lines 376-378: the test made after the unlock
MT_WtoTail(t) ==
    /\ ~crashed /\ pc[t] = "wto_tail"
    /\ LET o == tl[t].obj IN
       \E orc \in UafOracles :
       \E done \in RacyRead(t, o, objs[o].gotEOF /\ BufEmpty(Start, o)) :
          Step(t, Deref(Start, o, orc), IF done THEN "close_graph" ELSE "idle",
               [tl[t] EXCEPT !.ret = "idle"], bufLock)

\* read_from_obj lines 397-416: read(), and what its result leads to
MT_ReadFrom(t, o) ==
    /\ ~crashed /\ Idle(t) /\ t \in IOThreads
    /\ Live(o) /\ objs[o].fd >= 0 /\ TypeOf(o) # LOGFILE
    /\ \E res \in ReadResults(NetBytes) :
          IF res.errno = "EIO"
          THEN Step(t, Crash(Start, "err_msg", o), "idle", NoLocals, bufLock)
          ELSE IF res.errno = "EAGAIN"
          THEN Step(t, Start, "idle", NoLocals, bufLock)
          ELSE IF res.n = 0
          THEN Step(t, Start, "close_graph", [NoLocals EXCEPT !.obj = o], bufLock)
          ELSE Step(t, Start, "rd_next",
                    [NoLocals EXCEPT !.src = o, !.data = res.data, !.iter = 1],
                    bufLock)

\* read_from_obj lines 421-426: the next reader, and the test of its gotEOF
MT_RdNext(t) ==
    /\ ~crashed /\ pc[t] = "rd_next"
    /\ LET src == tl[t].src
           rs  == objs[src].readers
       IN  \E orc \in UafOracles :
           IF tl[t].iter > Len(rs)
           THEN Step(t, Deref(Start, src, orc), "idle", NoLocals, bufLock)
           ELSE LET r == rs[tl[t].iter] IN
                \E eof \in RacyRead(t, r, objs[r].gotEOF) :
                   Step(t, Deref(Deref(Start, src, orc), r, orc),
                        IF eof THEN "rd_next" ELSE "wod_lock",
                        [tl[t] EXCEPT !.iter = @ + 1, !.obj = r, !.ret = "rd_next"],
                        bufLock)

\* write_obj_data line 462: pthread_mutex_lock
MT_WodLock(t) ==
    /\ ~crashed /\ pc[t] = "wod_lock"
    /\ bufLock[tl[t].obj] = NULL
    /\ \E orc \in UafOracles :
          Step(t, Deref(Start, tl[t].obj, orc), "wod_body", tl[t],
               [bufLock EXCEPT ![tl[t].obj] = t])

\* write_obj_data lines 465-521: the critical section, up to the unlock
MT_WodBody(t) ==
    /\ ~crashed /\ pc[t] = "wod_body"
    /\ Step(t, write_obj_data(Start, tl[t].obj, tl[t].data, NoOrc), tl[t].ret,
            tl[t], Unlocked(tl[t].obj))

\* close_obj called by the orchestration thread
MT_Close(t, o) ==
    /\ ~crashed /\ Idle(t) /\ t \in OrchThreads
    /\ Live(o)
    /\ Step(t, Start, "close_graph", [NoLocals EXCEPT !.obj = o], bufLock)

\* close_obj lines 211-234: the links are removed
MT_CloseGraph(t) ==
    /\ ~crashed /\ pc[t] = "close_graph"
    /\ \E orc \in OraclesFor(TRUE, FALSE) :
          Step(t, CloseGraph(Start, tl[t].obj, orc, 0),
               "close_test", tl[t], bufLock)

\* close_obj line 239: is the buffer empty? (no lock is taken)
MT_CloseTest(t) ==
    /\ ~crashed /\ pc[t] = "close_test"
    /\ \E empty \in RacyRead(t, tl[t].obj, BufEmpty(Start, tl[t].obj)) :
          Step(t, Start, "close_fin", [tl[t] EXCEPT !.empty = empty], bufLock)

\* close_obj lines 240-252: defer, or close the descriptor (and destroy a
\* socket: pthread_mutex_destroy of a mutex another thread holds is undefined)
MT_CloseFin(t) ==
    /\ ~crashed /\ pc[t] = "close_fin"
    /\ LET o == tl[t].obj
           busy == tl[t].empty /\ TypeOf(o) = SOCKET /\ bufLock[o] \notin {NULL, t}
       IN  \E orc \in UafOracles :
           \E fatal \in (IF busy THEN BOOLEAN ELSE {FALSE}) :
              Step(t, IF fatal THEN Crash(Start, "err_msg", o)
                      ELSE CloseBuffer(Start, o, tl[t].empty, orc),
                   tl[t].ret, tl[t], bufLock)

\* create_obj_link lines 278-285: is there a writer to steal from?
MT_Link(t, src, dst) ==
    /\ ~crashed /\ Idle(t) /\ t \in OrchThreads
    /\ LinkAllowed(src, dst)
    /\ LET l == [NoLocals EXCEPT !.src = src, !.dst = dst] IN
       IF objs[dst].writer # NULL
       THEN Step(t, Start, "wod_lock",
                 [l EXCEPT !.obj = objs[dst].writer, !.data = Notice,
                           !.ret = "link_close"], bufLock)
       ELSE Step(t, Start, "link_edges", l, bufLock)

\* create_obj_link line 288: close_obj(dst->writer), dst->writer read again
MT_LinkClose(t) ==
    /\ ~crashed /\ pc[t] = "link_close"
    /\ LET w == objs[tl[t].dst].writer IN
       IF w = NULL
       THEN Step(t, Crash(Start, "null_deref", tl[t].dst), "idle", NoLocals, bufLock)
       ELSE Step(t, Start, "close_graph",
                 [tl[t] EXCEPT !.obj = w, !.ret = "link_edges"], bufLock)

\* create_obj_link lines 291-302
MT_LinkEdges(t) ==
    /\ ~crashed /\ pc[t] = "link_edges"
    /\ \E orc \in OraclesFor(FALSE, TypeOf(tl[t].dst) = LOGFILE
                                     /\ objs[tl[t].dst].fd < 0) :
          Step(t, LinkEdges(Start, tl[t].src, tl[t].dst, orc), "idle", NoLocals,
               bufLock)

NextMT ==
    \/ \E t \in Threads, s \in Sockets : MT_CreateSocket(t, s)
    \/ \E t \in Threads, src \in Objs, dst \in Objs : MT_Link(t, src, dst)
    \/ \E t \in Threads : MT_LinkClose(t)
    \/ \E t \in Threads : MT_LinkEdges(t)
    \/ \E t \in Threads, o \in Objs : MT_Close(t, o)
    \/ \E t \in Threads : MT_CloseGraph(t)
    \/ \E t \in Threads : MT_CloseTest(t)
    \/ \E t \in Threads : MT_CloseFin(t)
    \/ \E t \in Threads, o \in Objs : MT_ReadFrom(t, o)
    \/ \E t \in Threads : MT_RdNext(t)
    \/ \E t \in Threads : MT_WodLock(t)
    \/ \E t \in Threads : MT_WodBody(t)
    \/ \E t \in Threads, o \in Objs : MT_WriteTo(t, o)
    \/ \E t \in Threads : MT_WtoLock(t)
    \/ \E t \in Threads : MT_WtoBody(t)
    \/ \E t \in Threads : MT_WtoTail(t)

SpecMT == Init /\ [][NextMT]_vars


\* C1 (buffer bounds): in every reachable state, whatever the interleaving of
\* write_obj_data, write_to_obj and close_obj, both indices of every object's
\* buffer lie in 0 .. MAX_BUF_SIZE - 1 (what the asserts at the entry and exit
\* of write_to_obj and write_obj_data test).
C1_BufferBounds ==
    \A o \in Objs :
        /\ objs[o].bufInPtr \in 0..(MAX_BUF_SIZE - 1)
        /\ objs[o].bufOutPtr \in 0..(MAX_BUF_SIZE - 1)

\* an append wrapped the console's in index back to the start while the other
\* thread was inside an operation of its own
C1_Witness ==
    /\ ~crashed
    /\ Len(ev) > 0 /\ ev[1].e = "write_obj_data" /\ ev[1].o = "C"
    /\ objs["C"].bufInPtr = 0
    /\ pc["t1"] # "idle"

\* C7 (no append after EOF): no write_obj_data appends to a buffer whose
\* gotEOF is set at the moment of the append.
C7_NoAppendAfterEOF ==
    \A i \in 1..Len(ev) : ev[i].e = "write_obj_data" => ~ev[i].eof

\* C8 (EOF flag transitions): gotEOF of an object goes from true to false
\* only in a step in which its buffer is empty.
C8_EOFClearedOnlyWhenEmpty ==
    [][\A o \in Objs :
          (objs[o].gotEOF /\ ~objs'[o].gotEOF) =>
              (objs[o].bufInPtr = objs[o].bufOutPtr
               /\ objs'[o].bufInPtr = objs'[o].bufOutPtr)]_vars


-----------------------------------------------------------------------------
(* One producer appending with write_obj_data, one consumer draining with   *)
(* write_to_obj, on one connected socket.  The producer's bytes are         *)
(* numbered 1, 2, 3, ... so that every byte on the wire can be recognised.  *)

FifoObj == "S1"

\* the bytes the producer appends, in all
MaxBytes == 4

InitFifo ==
    /\ objs = [InitObjs({}) EXCEPT ![FifoObj] = create_socket_obj(FifoObj)]
    /\ crashed = FALSE
    /\ ev = <<>>
    /\ op = NoOp
    /\ pc = [t \in Threads |-> "idle"]
    /\ tl = [t \in Threads |-> NoLocals]
    /\ bufLock = [o \in Objs |-> NULL]
    /\ nops = 0
    /\ wire = NoWire
    /\ procs = NoProcs
    /\ conf = NoConf

\* write_obj_data(obj, src, k) called with the next k bytes (lines 444-460)
FifoProduce(t) ==
    /\ ~crashed /\ pc[t] = "idle" /\ t \in OrchThreads
    /\ nops < MaxBytes
    /\ \E k \in 1..MIN(MAX_BUF_SIZE - 1, MaxBytes - nops) :
          /\ tl' = [tl EXCEPT ![t] = [NoLocals EXCEPT
                        !.obj = FifoObj, !.data = [i \in 1..k |-> nops + i]]]
          /\ nops' = nops + k
    /\ pc' = [pc EXCEPT ![t] = "wod_lock"]
    /\ ev' = <<>>
    /\ UNCHANGED <<objs, crashed, op, bufLock, wire, procs, conf>>

\* write_obj_data lines 465-521, with the loss of buffered bytes noted: the
\* append is longer than the room left
FifoWodBody(t) ==
    /\ ~crashed /\ pc[t] = "wod_body"
    /\ LET o == tl[t].obj
           h == write_obj_data(Start, o, tl[t].data, NoOrc)
       IN  /\ objs' = h.objs /\ crashed' = h.crashed /\ ev' = h.ev
           /\ wire' = [wire EXCEPT ![o].lossy =
                          @ \/ Len(tl[t].data) > MAX_BUF_SIZE - 1 - Occupancy(objs[o])]
           /\ bufLock' = Unlocked(o)
    /\ pc' = [pc EXCEPT ![t] = "idle"]
    /\ tl' = [tl EXCEPT ![t] = NoLocals]
    /\ UNCHANGED <<op, nops, procs, conf>>

\* write_to_obj lines 316-318
FifoWriteTo(t) ==
    /\ ~crashed /\ pc[t] = "idle" /\ t \in IOThreads
    /\ Live(FifoObj) /\ objs[FifoObj].fd >= 0
    /\ pc' = [pc EXCEPT ![t] = "wto_lock"]
    /\ tl' = [tl EXCEPT ![t] = [NoLocals EXCEPT !.obj = FifoObj]]
    /\ ev' = <<>>
    /\ UNCHANGED <<objs, crashed, op, bufLock, nops, wire, procs, conf>>

\* write_to_obj lines 323-369, with what write(fd, bufOutPtr, avail) took
\* from the buffer put on the wire
FifoWtoBody(t) ==
    /\ ~crashed /\ pc[t] = "wto_body"
    /\ LET o == tl[t].obj IN
       \E res \in WriteResults(WtoAvail(objs[o])) :
          LET h == WtoLocked(Start, o, res)
              n == IF WtoAvail(objs[o]) > 0 /\ res.n > 0 THEN res.n ELSE 0
              taken == [i \in 1..n |-> objs[o].buf[objs[o].bufOutPtr + i - 1]]
          IN  /\ objs' = h.objs /\ crashed' = h.crashed /\ ev' = h.ev
              /\ wire' = [wire EXCEPT
                    ![o].sent = @ \o taken,
                    ![o].lossy = @ \/ (WtoAvail(objs[o]) > 0 /\ res.errno = "EPIPE")]
              /\ bufLock' = Unlocked(o)
    /\ pc' = [pc EXCEPT ![t] = "wto_tail"]
    /\ UNCHANGED <<op, tl, nops, procs, conf>>

NextFifo ==
    \/ \E t \in Threads : FifoProduce(t)
    \/ \E t \in Threads : MT_WodLock(t)
    \/ \E t \in Threads : FifoWodBody(t)
    \/ \E t \in Threads : FifoWriteTo(t)
    \/ \E t \in Threads : MT_WtoLock(t)
    \/ \E t \in Threads : FifoWtoBody(t)
    \/ \E t \in Threads : MT_WtoTail(t)
    \/ \E t \in Threads : MT_CloseGraph(t)
    \/ \E t \in Threads : MT_CloseTest(t)
    \/ \E t \in Threads : MT_CloseFin(t)

SpecFifo == InitFifo /\ [][NextFifo]_vars

\* C11 (FIFO delivery): the bytes the descriptor accepted are, in order and
\* without repetition, bytes that were appended (a subsequence of 1, 2, ...,
\* nops); as long as no append exceeded the room left and no EPIPE flush
\* happened they are exactly the first bytes appended.
C11_FifoDelivery ==
    LET s == wire[FifoObj].sent
    IN  /\ \A i \in 1..Len(s) : s[i] \in 1..nops
        /\ \A i \in 1..Len(s), j \in 1..Len(s) : i < j => s[i] < s[j]
        /\ ~wire[FifoObj].lossy => \A i \in 1..Len(s) : s[i] = i

\* after an overrun, two or more bytes were delivered, the oldest byte
\* appended not among them
C11_Witness ==
    /\ ~crashed
    /\ wire[FifoObj].lossy
    /\ Len(wire[FifoObj].sent) >= 2
    /\ wire[FifoObj].sent[1] # 1


\* the positions whose next step reads or writes in, out, the buffer bytes
\* or gotEOF of the object tl[t].obj: the two critical sections, the test at
\* the end of write_to_obj (376), and close_obj's test and update (239-250)
AccessPc == {"wod_body", "wto_body", "wto_tail", "close_test", "close_fin"}

\* C12 (lock discipline): a thread about to read or write in, out, the buffer
\* bytes or gotEOF of an object holds that object's bufLock.
C12_LockDiscipline ==
    \A t \in Threads :
        pc[t] \in AccessPc => bufLock[tl[t].obj] = t


\* the positions in a log of the events e about object o
EvsOf(evs, e, o) == {i \in 1..Len(evs) : evs[i].e = e /\ evs[i].o = o}

\* C13 (descriptor closed exactly once): in every operation, close(2) is
\* called at most once per object, only on the descriptor the object holds,
\* and leaves the object's fd at none; a descriptor leaves an object only by
\* being closed; an object that is destroyed ends with its descriptor closed.
C13_FdClosedOnce ==
    [][\A o \in Objs :
          LET closes == EvsOf(ev', "close_fd", o)
          IN  /\ Cardinality(closes) <= 1
              /\ \A i \in closes :
                    objs[o].fd >= 0 /\ ev'[i].n = objs[o].fd /\ objs'[o].fd = -1
              /\ (objs[o].fd >= 0 /\ objs'[o].fd # objs[o].fd) => closes # {}
              /\ (objs[o].life = "live" /\ objs'[o].life = "freed") =>
                    objs'[o].fd = -1]_vars

\* a write_to_obj drained a socket, closed its descriptor and destroyed it
C13_Witness ==
    /\ ~crashed
    /\ op.name = "write_to_obj"
    /\ objs[op.a].life = "freed" /\ objs[op.a].fd = -1
    /\ EvsOf(ev, "close_fd", op.a) # {}
    /\ EvsOf(ev, "destroy_obj", op.a) # {}


-----------------------------------------------------------------------------
(* Start-up of processes on one configuration file: the daemon              *)
(* (process_server_conf_file, lines 208-216) and the -k client              *)
(* (kill_daemon, lines 289-305).  A step is one system call.                *)

\* is_write_lock_blocked(fd): the processes whose lock on the file would
\* block a write lock by p (F_GETLK reports one of them); a read lock held
\* by another process is such a lock
Blockers(p) == {q \in Procs \ {p} : procs[q].rdlock}

\* get_read_lock(fd): a read lock is refused only while another process
\* holds a write lock, and no process ever takes one
ReadLockGranted(p) == TRUE

ProcStep(p, r) ==
    /\ procs' = [procs EXCEPT ![p] = r]
    /\ UNCHANGED <<objs, crashed, ev, op, pc, tl, bufLock, nops, wire, conf>>

\* the program is started, as daemon or with -k
Exec(p) ==
    /\ procs[p].at = "off"
    /\ \E k \in BOOLEAN : ProcStep(p, Proc("open", k, -1, FALSE))

\* lines 208 and 289: open(conf->filename, O_RDONLY)
ConfOpen(p) ==
    /\ procs[p].at = "open"
    /\ ProcStep(p, [procs[p] EXCEPT !.at = "probe", !.fd = 3])

\* lines 211-213: the daemon probes; err_msg ends the process
ConfProbe(p) ==
    /\ procs[p].at = "probe" /\ ~procs[p].kill
    /\ IF Blockers(p) # {}
       THEN ProcStep(p, Proc("in_use", FALSE, -1, FALSE))
       ELSE ProcStep(p, [procs[p] EXCEPT !.at = "lock"])

\* lines 214-216: get_read_lock; from here on the daemon runs
ConfLock(p) ==
    /\ procs[p].at = "lock"
    /\ IF ReadLockGranted(p)
       THEN ProcStep(p, [procs[p] EXCEPT !.at = "running", !.rdlock = TRUE])
       ELSE ProcStep(p, NoProc)

\* lines 292-305: -k probes, sends SIGTERM to the holder it was told of, and
\* exits; the signalled daemon ends and with it its lock
KillProbe(p) ==
    /\ procs[p].at = "probe" /\ procs[p].kill
    /\ IF Blockers(p) = {}
       THEN ProcStep(p, NoProc)
       ELSE \E q \in Blockers(p) :
               /\ procs' = [procs EXCEPT ![p] = NoProc, ![q] = NoProc]
               /\ UNCHANGED <<objs, crashed, ev, op, pc, tl, bufLock, nops, wire, conf>>

\* the process that ended with "Configuration in use" is gone
Reap(p) ==
    /\ procs[p].at = "in_use"
    /\ ProcStep(p, NoProc)

NextLock ==
    \/ \E p \in Procs : Exec(p)
    \/ \E p \in Procs : ConfOpen(p)
    \/ \E p \in Procs : ConfProbe(p)
    \/ \E p \in Procs : ConfLock(p)
    \/ \E p \in Procs : KillProbe(p)
    \/ \E p \in Procs : Reap(p)

SpecLock == Init /\ [][NextLock]_vars

\* C14 (single-instance guard): at no time do two processes run as daemon on
\* the same configuration file.
C14_SingleInstance ==
    \A p \in Procs, q \in Procs :
        (procs[p].at = "running" /\ procs[q].at = "running") => p = q


-----------------------------------------------------------------------------
(* The configuration parser (src/server-conf.c).  The lexer's output is a   *)
(* sequence of tokens [k, v]: k the token id, v what atoi(lex_text) gives   *)
(* for it.  The parser state c holds the tokens not yet consumed (toks),    *)
(* whether the file ends after them (eof), lex_prev (prev), atoi of the     *)
(* current text (val), the server_conf_t fields port, keepAlive, loopBack,  *)
(* the port saved at line 206 (port0), and what the current line made the   *)
(* parser report and create (out).                                          *)

DEFAULT_CONMAN_PORT == 7890
DEFAULT_CONSOLE_BAUD == 9600

Tok(k, v) == [k |-> k, v |-> v]
Out(what, v) == [what |-> what, v |-> v]
Emit(c, what, v) == [c EXCEPT !.out = Append(@, Out(what, v))]

\* lex_next(l): the next token; at the end of the file LEX_EOF, again and
\* again.  `over` notes a read beyond the tokens of the lines handed over so
\* far, in a file that has not ended.
LexNext(c) ==
    IF c.toks # <<>>
    THEN [c EXCEPT !.toks = Tail(@), !.prev = Head(c.toks).k, !.val = Head(c.toks).v]
    ELSE [c EXCEPT !.prev = "EOF", !.val = 0, !.over = @ \/ ~c.eof]

\* the result of one pass through a directive's switch
Pass(c, err, done) == [c |-> c, err |-> err, done |-> done]

\* a recovery that leaves the rest of the line where it is
SkipLine_None(c) == c

\* lines 390-391, 496-497 (and 248-249): consume up to the end of the line
RECURSIVE SkipLine(_)
SkipLine(c) ==
    IF c.prev \in {"EOL", "EOF"} THEN c ELSE SkipLine(LexNext(c))

\* parse_server_directive lines 422-433, 441-452: KEY=ON|OFF
OnOff(c0, field) ==
    LET c1 == LexNext(c0)
        c2 == LexNext(c1)
    IN  IF c1.prev # "=" THEN Pass(c1, "expected =", FALSE)
        ELSE IF c2.prev = "ON" THEN Pass([c2 EXCEPT ![field] = 1], "", FALSE)
        ELSE IF c2.prev = "OFF" THEN Pass([c2 EXCEPT ![field] = 0], "", FALSE)
        ELSE Pass(c2, "expected ON or OFF", FALSE)

\* a PORT option that takes any integer
PortOpt_AnyInt(c0) ==
    LET c1 == LexNext(c0)
        c2 == LexNext(c1)
    IN  IF c1.prev # "=" THEN Pass(c1, "expected =", FALSE)
        ELSE IF c2.prev # "STR" /\ c2.prev # "INT"
        THEN Pass(c2, "expected INTEGER", FALSE)
        ELSE Pass([c2 EXCEPT !.port = c2.val], "", FALSE)

\* parse_server_directive lines 460-472: PORT=<int>
PortOpt(c0) ==
    LET c1 == LexNext(c0)
        c2 == LexNext(c1)
    IN  IF c1.prev # "=" THEN Pass(c1, "expected =", FALSE)
        ELSE IF c2.prev # "STR" /\ c2.prev # "INT"
        THEN Pass(c2, "expected INTEGER", FALSE)
        ELSE IF c2.val <= 0 THEN Pass(c2, "invalid value", FALSE)
        ELSE Pass([c2 EXCEPT !.port = c2.val], "", FALSE)

\* parse_server_directive lines 419-491: one turn of the loop
ServerPass(c) ==
    LET c0 == LexNext(c)
        tok == c0.prev
    IN  IF tok = "KEEPALIVE" THEN OnOff(c0, "keepAlive")
        ELSE IF tok = "LOOPBACK" THEN OnOff(c0, "loopBack")
        ELSE IF tok \in {"LOGFILE", "PIDFILE", "TIMESTAMP"}
        THEN Pass(LexNext(c0), "not yet implemented", FALSE)
        ELSE IF tok = "PORT" THEN PortOpt(c0)
        ELSE IF tok \in {"EOF", "EOL"} THEN Pass(c0, "", TRUE)
        ELSE IF tok = "ERR" THEN Pass(c0, "unmatched quote", FALSE)
        ELSE Pass(c0, "unrecognized token", FALSE)

RECURSIVE ServerLoop(_)
ServerLoop(c) ==
    LET r == ServerPass(c)
    IN  IF r.done \/ r.err # "" THEN r ELSE ServerLoop(r.c)

\* parse_server_directive, lines 409-500
parse_server_directive(c) ==
    LET r == ServerLoop(c)
    IN  IF r.err # "" THEN SkipLine(Emit(r.c, "error", 0)) ELSE r.c


\* the locals of parse_console_directive: which of name, dev, log are
\* non-empty, and bps
ConsLocals(name, dev, log, bps) == [name |-> name, dev |-> dev, log |-> log, bps |-> bps]

\* parse_console_directive lines 329-338, 350-359: KEY=<str>; the result
\* carries whether the value was stored
StrOpt(c0) ==
    LET c1 == LexNext(c0)
        c2 == LexNext(c1)
    IN  IF c1.prev # "=" THEN Pass(c1, "expected =", FALSE)
        ELSE IF c2.prev # "STR" THEN Pass(c2, "expected STRING", FALSE)
        ELSE Pass(c2, "", FALSE)

\* parse_console_directive lines 326-382: one turn of the loop, on the
\* parser state c and the locals l
ConsolePass(c, l) ==
    LET c0 == LexNext(c)
        tok == c0.prev
    IN  IF tok = "NAME"
        THEN LET r == StrOpt(c0)
             IN  [r |-> r, l |-> IF r.err = "" THEN [l EXCEPT !.name = TRUE] ELSE l]
        ELSE IF tok = "DEV"
        THEN LET r == StrOpt(c0)
             IN  \* line 348 copies the current text whatever the outcome
                 [r |-> r, l |-> [l EXCEPT !.dev = TRUE]]
        ELSE IF tok = "LOG"
        THEN LET r == StrOpt(c0)
             IN  [r |-> r, l |-> IF r.err = "" THEN [l EXCEPT !.log = TRUE] ELSE l]
        ELSE IF tok = "BPS"
        THEN LET c1 == LexNext(c0)
                 c2 == LexNext(c1)
             IN  IF c1.prev # "=" THEN [r |-> Pass(c1, "expected =", FALSE), l |-> l]
                 ELSE IF c2.prev # "STR" /\ c2.prev # "INT"
                 THEN [r |-> Pass(c2, "expected INTEGER", FALSE), l |-> l]
                 ELSE [r |-> Pass(c2, IF c2.val <= 0 THEN "invalid value" ELSE "", FALSE),
                       l |-> [l EXCEPT !.bps = c2.val]]
        ELSE IF tok \in {"EOF", "EOL"} THEN [r |-> Pass(c0, "", TRUE), l |-> l]
        ELSE IF tok = "ERR" THEN [r |-> Pass(c0, "unmatched quote", FALSE), l |-> l]
        ELSE [r |-> Pass(c0, "unrecognized token", FALSE), l |-> l]

RECURSIVE ConsoleLoop(_, _)
ConsoleLoop(c, l) ==
    LET x == ConsolePass(c, l)
    IN  IF x.r.done \/ x.r.err # "" THEN x ELSE ConsoleLoop(x.r.c, x.l)

\* parse_console_directive, lines 309-406
parse_console_directive(c) ==
    LET x == ConsoleLoop(c, ConsLocals(FALSE, FALSE, FALSE, DEFAULT_CONSOLE_BAUD))
        err == IF x.r.err = "" /\ (~x.l.name \/ ~x.l.dev) THEN "incomplete directive"
               ELSE x.r.err
        con == Emit(x.r.c, "console", x.l.bps)
    IN  IF err # "" THEN SkipLine(Emit(x.r.c, "error", 0))
        ELSE IF x.l.log THEN Emit(con, "logfile", 0)
        ELSE con

\* lines 248-249: the top level skips on its own copy of the token
RECURSIVE TopSkip(_)
TopSkip(c) ==
    IF c.prev \in {"EOL", "EOF"} THEN c ELSE TopSkip(LexNext(c))

\* process_server_conf_file lines 231-261: one turn of the loop over the
\* tokens, and what follows the loop when the token is LEX_EOF
TopStep(c) ==
    LET c0 == LexNext(c)
        tok == c0.prev
    IN  IF tok = "EOF"
        THEN [c0 EXCEPT !.state = "done",
                        !.port = IF c0.port0 > 0 THEN c0.port0
                                 ELSE IF c0.port <= 0 THEN DEFAULT_CONMAN_PORT
                                 ELSE c0.port]
        ELSE IF tok = "CONSOLE" THEN parse_console_directive(c0)
        ELSE IF tok = "SERVER" THEN parse_server_directive(c0)
        ELSE IF tok = "EOL" THEN c0
        ELSE IF tok = "ERR" THEN Emit(c0, "error", 0)
        ELSE TopSkip(Emit(c0, "error", 0))


\* process_server_conf_file lines 231-252 on the tokens of one line: the loop
\* turns until the line's tokens are used up and, after the file's last
\* line, until LEX_EOF ends the loop
RECURSIVE TopRun(_)
TopRun(c) ==
    IF c.state = "done" \/ (c.toks = <<>> /\ ~c.eof) THEN c ELSE TopRun(TopStep(c))

-----------------------------------------------------------------------------
(* SpecConf: the command line and the configuration file, line by line.     *)

\* the options a line may carry, at most
MaxOpts == 2

\* an option as written: keyword, "=" or not, and the value token if any
Frag(key, eq, vk, v) == [key |-> key, eq |-> eq, vk |-> vk, v |-> v]

Frags ==
    { Frag("PORT", TRUE, "INT", 5), Frag("PORT", TRUE, "STR", 7),
      Frag("PORT", TRUE, "STR", -1), Frag("PORT", FALSE, "INT", 5),
      Frag("KEEPALIVE", TRUE, "OFF", 0), Frag("KEEPALIVE", TRUE, "INT", 1), Frag("LOGFILE", TRUE, "STR", 0),
      Frag("NAME", TRUE, "STR", 0), Frag("DEV", TRUE, "STR", 0),
      Frag("LOG", TRUE, "STR", 0), Frag("BPS", TRUE, "INT", 3),
      Frag("BPS", TRUE, "INT", 0),
      Frag("DEV", TRUE, "ERR", 0), Frag("OTHER", FALSE, "none", 0) }

FragToks(f) ==
    <<Tok(f.key, 0)>> \o (IF f.eq THEN <<Tok("=", 0)>> ELSE <<>>)
                      \o (IF f.vk # "none" THEN <<Tok(f.vk, f.v)>> ELSE <<>>)

Heads == {"SERVER", "CONSOLE", "OTHER", "ERR", "BLANK"}

\* a line as written: what it starts with, its options, and whether a
\* newline or the end of the file ends it.  An unmatched quote runs to the
\* end of its line, so nothing follows it there; the lines outside a
\* directive are taken with one option at most.
Lines ==
    { l \in [head : Heads, frags : Strings(Frags, 0, MaxOpts), end : {"EOL", "EOF"}] :
        /\ l.head = "ERR" => l.frags = <<>>
        /\ l.head \in {"OTHER", "BLANK"} => Len(l.frags) <= 1
        /\ \A i \in 1..Len(l.frags) : l.frags[i].vk = "ERR" => i = Len(l.frags) }

RECURSIVE Flatten(_)
Flatten(ss) == IF ss = <<>> THEN <<>> ELSE Head(ss) \o Flatten(Tail(ss))

\* the tokens the lexer makes of a line
LineToks(l) ==
    (IF l.head = "BLANK" THEN <<>> ELSE <<Tok(l.head, 0)>>)
      \o Flatten([i \in 1..Len(l.frags) |-> FragToks(l.frags[i])])
      \o (IF l.end = "EOL" THEN <<Tok("EOL", 0)>> ELSE <<>>)


\* What the file says, read off the lines as written (not off the tokens):
\* an option is well-formed under its directive,
WellFormed(head, f) ==
    /\ f.eq
    /\ \/ head = "SERVER" /\ f.key \in {"KEEPALIVE", "LOOPBACK"} /\ f.vk \in {"ON", "OFF"}
       \/ head = "SERVER" /\ f.key = "PORT" /\ f.vk \in {"INT", "STR"} /\ f.v > 0
       \/ head = "CONSOLE" /\ f.key \in {"NAME", "DEV", "LOG"} /\ f.vk = "STR"
       \/ head = "CONSOLE" /\ f.key = "BPS" /\ f.vk \in {"INT", "STR"} /\ f.v > 0

\* the options of a line up to its first error,
RECURSIVE Sound(_, _)
Sound(head, fs) ==
    IF fs = <<>> \/ ~WellFormed(head, Head(fs)) THEN <<>>
    ELSE <<Head(fs)>> \o Sound(head, Tail(fs))

Keys(fs) == {fs[i].key : i \in 1..Len(fs)}

\* the value of the last option of fs with keyword key, or dflt
RECURSIVE LastOf(_, _, _)
LastOf(fs, key, dflt) ==
    IF fs = <<>> THEN dflt
    ELSE IF fs[Len(fs)].key = key THEN fs[Len(fs)]
    ELSE LastOf(SubSeq(fs, 1, Len(fs) - 1), key, dflt)

\* a line holds a per-directive error,
Erroneous(l) ==
    \/ l.head \in {"OTHER", "ERR"}
    \/ l.head = "BLANK" /\ l.frags # <<>>
    \/ l.head \in {"SERVER", "CONSOLE"} /\ Sound(l.head, l.frags) # l.frags
    \/ l.head = "CONSOLE" /\ ~({"NAME", "DEV"} \subseteq Keys(l.frags))

\* and what a line means: the settings r after it, its report, the objects
\* it asks for, and whether an erroneous line came before it
Meaning(r, l) ==
    LET fs == IF l.head = "SERVER" THEN Sound("SERVER", l.frags) ELSE <<>>
        on(f) == IF f.vk = "ON" THEN 1 ELSE 0
        bps == LastOf(l.frags, "BPS", Frag("BPS", TRUE, "INT", DEFAULT_CONSOLE_BAUD)).v
    IN  [port |-> LastOf(fs, "PORT", Frag("PORT", TRUE, "INT", r.port)).v,
         keepAlive |-> on(LastOf(fs, "KEEPALIVE",
                          Frag("", TRUE, IF r.keepAlive = 1 THEN "ON" ELSE "OFF", 0))),
         loopBack |-> on(LastOf(fs, "LOOPBACK",
                          Frag("", TRUE, IF r.loopBack = 1 THEN "ON" ELSE "OFF", 0))),
         bad |-> Erroneous(l), seen |-> r.seen \/ r.bad,
         out |-> IF Erroneous(l) THEN <<Out("error", 0)>>
                 ELSE IF l.head # "CONSOLE" THEN <<>>
                 ELSE IF "LOG" \in Keys(l.frags)
                 THEN <<Out("console", bps), Out("logfile", 0)>>
                 ELSE <<Out("console", bps)>>]

\* create_server_conf, lines 71-110
create_server_conf ==
    [state |-> "new", toks |-> <<>>, eof |-> FALSE, prev |-> "none", val |-> 0,
     over |-> FALSE, port0 |-> 0, port |-> 0, keepAlive |-> 1, loopBack |-> 0,
     out |-> <<>>,
     ref |-> [port |-> 0, keepAlive |-> 1, loopBack |-> 0, bad |-> FALSE,
              seen |-> FALSE, out |-> <<>>]]

\* what atoi makes of the argument of -p, when -p is given
PortArgs == {-1, 0, 9}

ConfStep(c) ==
    /\ conf' = c
    /\ UNCHANGED <<objs, crashed, ev, op, pc, tl, bufLock, nops, wire, procs>>

\* main: create_server_conf, then process_server_cmd_line lines 147-182,
\* without -p or with -p n
CmdLine ==
    /\ conf.state = "none"
    /\ \/ ConfStep([create_server_conf EXCEPT !.state = "cmdline"])
       \/ \E n \in PortArgs :
             ConfStep([create_server_conf EXCEPT !.state = "cmdline",
                           !.port = IF n <= 0 THEN @ ELSE n])

\* process_server_conf_file lines 206-230: the port is saved, the file is
\* read and the lexer created
ConfRead ==
    /\ conf.state = "cmdline"
    /\ ConfStep([conf EXCEPT !.state = "parsing", !.port0 = conf.port])

\* process_server_conf_file lines 231-261 on the next line of the file
ParseLine ==
    /\ conf.state = "parsing" /\ conf.toks = <<>> /\ ~conf.eof
    /\ \E l \in Lines :
          ConfStep(TopRun([conf EXCEPT !.toks = LineToks(l), !.eof = (l.end = "EOF"),
                                       !.out = <<>>, !.ref = Meaning(conf.ref, l)]))

NextConf == CmdLine \/ ConfRead \/ ParseLine

SpecConf == Init /\ [][NextConf]_vars

-----------------------------------------------------------------------------
\* C17 (close detaches completely): when close_obj(obj) has returned, obj
\* has no writer and no readers, obj is in no other object's readers list,
\* and no other object has obj as its writer.
C17_CloseDetaches ==
    (op.name = "close_obj" /\ ~crashed) =>
        LET o == op.a
        IN  /\ objs[o].life = "live" => objs[o].writer = NULL /\ objs[o].readers = <<>>
            /\ \A x \in LiveObjs \ {o} :
                  Count(objs[x].readers, o) = 0 /\ objs[x].writer # o


\* the objects that share an edge with o
Neighbours(o) ==
    {x \in LiveObjs \ {o} :
        \/ objs[o].writer = x \/ IndexOf(objs[o].readers, x) > 0
        \/ objs[x].writer = o \/ IndexOf(objs[x].readers, o) > 0}

\* x has no edge but those it shares with o
OnlyEdgesTo(x, o) ==
    /\ objs[x].writer \in {NULL, o}
    /\ \A k \in 1..Len(objs[x].readers) : objs[x].readers[k] = o

\* C18 (close cascade is exact): when close_obj(obj) has returned, a
\* neighbour of obj was closed in turn if and only if the edges to obj were
\* its only edges; a neighbour with another edge keeps its descriptor,
\* gotEOF and buffer.
C18_CascadeExact ==
    [][(op'.name = "close_obj" /\ ~crashed') =>
        \A x \in Neighbours(op'.a) :
            IF OnlyEdgesTo(x, op'.a)
            THEN EvsOf(ev', "close_obj", x) # {}
            ELSE /\ EvsOf(ev', "close_obj", x) = {}
                 /\ objs'[x].fd = objs[x].fd /\ objs'[x].gotEOF = objs[x].gotEOF
                 /\ objs'[x].buf = objs[x].buf
                 /\ objs'[x].bufInPtr = objs[x].bufInPtr
                 /\ objs'[x].bufOutPtr = objs[x].bufOutPtr]_vars


\* C19 (link activates both endpoints): when create_obj_link(src, dst) has
\* returned, src and dst are both open (fd >= 0), and a logfile that was not
\* open before has the session header as the first bytes of its buffer.
C19_LinkActivates ==
    [][(op'.name = "create_obj_link" /\ ~crashed') =>
        LET src == op'.a
            dst == op'.b
        IN  /\ objs'[src].fd >= 0
            /\ objs'[dst].fd >= 0
            /\ (TypeOf(dst) = LOGFILE /\ objs[dst].fd < 0) =>
                  /\ Len(Readable(objs'[dst])) >= HeaderLen
                  /\ SubSeq(Readable(objs'[dst]), 1, HeaderLen) = Header]_vars


-----------------------------------------------------------------------------
(* SpecRead: read_from_obj on a console that is open (the state its open    *)
(* routine is to leave it in) with any list of readers, each with any       *)
(* buffer and either value of gotEOF, and on a socket that feeds it.        *)

\* the objects that may read the console
ReaderPool == {"L", "S1"}

\* the lists without repetition over the set S
RECURSIVE ListsOver(_)
ListsOver(S) ==
    {<<>>} \cup UNION {{<<x>> \o q : q \in ListsOver(S \ {x})} : x \in S}

\* the buffers write_obj_data and write_to_obj leave behind; an object that
\* waits for its close still holds bytes
BufStates ==
    {b \in [in : 0..(MAX_BUF_SIZE - 1), out : 0..(MAX_BUF_SIZE - 1), eof : BOOLEAN] :
        b.eof => b.in # b.out}

InitRead ==
    /\ \E rs \in ListsOver(ReaderPool), bi \in BOOLEAN :
       \E bs \in [ReaderPool -> BufStates] :
          objs = [o \in Objs |->
                    IF o = "C"
                    THEN [create_obj(o, "live") EXCEPT
                             !.fd = FdOf(o), !.readers = rs,
                             !.writer = IF bi /\ IndexOf(rs, "S1") > 0 THEN "S1" ELSE NULL]
                    ELSE IF IndexOf(rs, o) > 0
                    THEN [create_obj(o, "live") EXCEPT
                             !.fd = FdOf(o), !.writer = "C",
                             !.readers = IF bi /\ o = "S1" THEN <<"C">> ELSE <<>>,
                             !.gotEOF = bs[o].eof,
                             !.bufInPtr = bs[o].in, !.bufOutPtr = bs[o].out]
                    ELSE create_obj(o, "unborn")]
    /\ crashed = FALSE
    /\ ev = <<>>
    /\ op = NoOp
    /\ pc = [t \in Threads |-> "idle"]
    /\ tl = [t \in Threads |-> NoLocals]
    /\ bufLock = [o \in Objs |-> NULL]
    /\ nops = 0
    /\ wire = NoWire
    /\ procs = NoProcs
    /\ conf = NoConf

\* read_from_obj applied to the state drawn
ReadOnce(o) == op = NoOp /\ ReadFrom(o)

NextRead == \E o \in Objs : ReadOnce(o)

SpecRead == InitRead /\ [][NextRead]_vars

\* the n bytes d were put into r's buffer at its in index, and nothing else
\* of r but the indices changed
Appended(r, d) ==
    LET in0 == objs[r].bufInPtr
        at(k) == (in0 + k - 1) % MAX_BUF_SIZE
    IN  /\ objs'[r].bufInPtr = (in0 + Len(d)) % MAX_BUF_SIZE
        /\ \A k \in 1..Len(d) : objs'[r].buf[at(k)] = d[k]
        /\ \A c \in 0..(MAX_BUF_SIZE - 1) :
              c \notin {at(k) : k \in 1..Len(d)} => objs'[r].buf[c] = objs[r].buf[c]
        /\ objs'[r].fd = objs[r].fd /\ objs'[r].gotEOF = objs[r].gotEOF
        /\ objs'[r].life = objs[r].life

SameBuffers ==
    \A x \in Objs : /\ objs'[x].buf = objs[x].buf
                    /\ objs'[x].bufInPtr = objs[x].bufInPtr
                    /\ objs'[x].bufOutPtr = objs[x].bufOutPtr

\* C20 (read_from fan-out and frame): a read_from_obj(obj) that read n > 0
\* bytes appended them to every reader of obj whose gotEOF was false, left
\* the readers at EOF, obj itself and all edges as they were; one that got
\* EAGAIN changed nothing; one that read zero bytes called close_obj(obj)
\* and appended nothing.
C20_ReadFanOut ==
    [][(op'.name = "read_from_obj" /\ ~crashed') =>
        LET o == op'.a
            d == op'.data
        IN  IF op'.errno = "EAGAIN" THEN objs' = objs /\ ev' = <<>>
            ELSE IF d = <<>>
            THEN /\ ev' # <<>> /\ ev'[1].e = "close_obj" /\ ev'[1].o = o
                 /\ SameBuffers
                 /\ \A x \in Objs : EvsOf(ev', "write_obj_data", x) = {}
            ELSE /\ objs'[o] = objs[o]
                 /\ \A x \in Objs : /\ objs'[x].writer = objs[x].writer
                                    /\ objs'[x].readers = objs[x].readers
                 /\ \A r \in Objs \ {o} :
                       IF IndexOf(objs[o].readers, r) > 0 /\ ~objs[r].gotEOF
                       THEN Appended(r, d)
                       ELSE objs'[r] = objs[r]]_vars

\* the console was read into two readers, one of them at EOF
C20_Witness ==
    /\ op.name = "read_from_obj" /\ ~crashed /\ op.a = "C" /\ Len(op.data) = 2
    /\ Len(objs["C"].readers) = 2
    /\ objs["L"].gotEOF /\ ~objs["S1"].gotEOF
    /\ EvsOf(ev, "write_obj_data", "S1") # {} /\ EvsOf(ev, "write_obj_data", "L") = {}


-----------------------------------------------------------------------------
(* SpecWrite: write_to_obj on the objects of the states SpecRead draws: a   *)
(* logfile and a socket with every buffer state, either value of gotEOF.    *)

\* write_to_obj applied to the state drawn
WriteOnce(o) == op = NoOp /\ WriteTo(o)

NextWrite == \E o \in Objs : WriteOnce(o)

SpecWrite == InitRead /\ [][NextWrite]_vars

\* C21 (write_to outcomes): a write_to_obj(obj) that found bytes to write
\* offered write(2) no more than the run from out to in, or to the end of
\* the array when in < out; when write(2) took n > 0 bytes, out advanced by
\* n modulo MAX_BUF_SIZE and in stayed; on EAGAIN nothing changed; on EPIPE
\* the buffer was reset to in = out = 0 and the object closed in the same
\* call: fd none, gotEOF clear, and destroyed iff it is a socket.
C21_WriteOutcomes ==
    [][(op'.name = "write_to_obj" /\ ~crashed' /\ WtoAvail(objs[op'.a]) > 0) =>
        LET o == op'.a
            run == IF objs[o].bufInPtr >= objs[o].bufOutPtr
                   THEN objs[o].bufInPtr - objs[o].bufOutPtr
                   ELSE MAX_BUF_SIZE - objs[o].bufOutPtr
        IN  IF op'.errno = "EAGAIN" THEN objs' = objs
            ELSE IF op'.errno = "EPIPE"
            THEN /\ objs'[o].bufInPtr = 0 /\ objs'[o].bufOutPtr = 0
                 /\ objs'[o].fd = -1 /\ ~objs'[o].gotEOF
                 /\ (objs'[o].life = "freed") <=> (objs[o].type = SOCKET)
            ELSE /\ ev' # <<>> /\ ev'[1].e = "write" /\ ev'[1].o = o
                 /\ ev'[1].n \in 1..run
                 /\ objs'[o].bufOutPtr = (objs[o].bufOutPtr + ev'[1].n) % MAX_BUF_SIZE
                 /\ objs'[o].bufInPtr = objs[o].bufInPtr
                 /\ objs'[o].buf = objs[o].buf]_vars

\* write(2) answered EPIPE on a socket, which was closed and destroyed
C21_Witness ==
    /\ op.name = "write_to_obj" /\ op.errno = "EPIPE" /\ ~crashed
    /\ objs[op.a].type = SOCKET /\ objs[op.a].life = "freed"
    /\ EvsOf(ev, "close_fd", op.a) # {}


-----------------------------------------------------------------------------
\* C22 (destroy precondition): in every interleaving, destroy_obj is entered
\* only on an object whose buffer is empty: its assertion never fails.
C22_DestroyOnEmpty ==
    \A i \in 1..Len(ev) : ev[i].e # "assert_failed"


-----------------------------------------------------------------------------
(* SpecLog: linking, closing and draining, one operation at a time, on a    *)
(* configuration with a console and its logfile (CONSOLE ... LOG=...) and   *)
(* one client.                                                              *)

InitLog ==
    /\ objs = InitObjs({"C", "L"})
    /\ crashed = FALSE
    /\ ev = <<>>
    /\ op = NoOp
    /\ pc = [t \in Threads |-> "idle"]
    /\ tl = [t \in Threads |-> NoLocals]
    /\ bufLock = [o \in Objs |-> NULL]
    /\ nops = 0
    /\ wire = NoWire
    /\ procs = NoProcs
    /\ conf = NoConf

NextLog ==
    \/ CreateSocket("S1")
    \/ \E src \in Objs, dst \in Objs : Link(src, dst)
    \/ \E o \in Objs : Close(o)
    \/ \E o \in Objs : WriteTo(o)

SpecLog == InitLog /\ [][NextLog]_vars

\* C23 (a new link survives an earlier drain): when create_obj_link(src, dst)
\* has returned on a console or logfile dst, dst.gotEOF is false, also when
\* dst had been closed with bytes still buffered; and a write_to_obj that
\* drains a console or logfile which is linked to its writer does not close
\* it or take the edge away.
C23_RelinkSurvivesDrain ==
    [][/\ (op'.name = "create_obj_link" /\ ~crashed' /\ TypeOf(op'.b) # SOCKET) =>
             ~objs'[op'.b].gotEOF
       /\ (op'.name = "write_to_obj" /\ ~crashed' /\ op'.errno = "none"
             /\ TypeOf(op'.a) # SOCKET /\ objs[op'.a].writer # NULL
             /\ IndexOf(objs[objs[op'.a].writer].readers, op'.a) > 0) =>
             /\ objs'[op'.a].writer = objs[op'.a].writer
             /\ objs'[op'.a].fd = objs[op'.a].fd]_vars


-----------------------------------------------------------------------------
\* C24 (close terminates): within one operation close_obj is entered at most
\* once per object, and its recursion is never deeper than there are
\* objects, whatever the graph, the two-way link of a socket and a console
\* included.
C24_CloseTerminates ==
    /\ \A o \in Objs : Cardinality(EvsOf(ev, "close_obj", o)) <= 1
    /\ \A i \in 1..Len(ev) : ev[i].e = "close_obj" => ev[i].n < Cardinality(Objs)

\* a close_obj that closed a neighbour in turn has returned
C24_Witness ==
    /\ op.name = "close_obj" /\ ~crashed
    /\ \E i \in 1..Len(ev) : ev[i].e = "close_obj" /\ ev[i].n = 1 /\ ev[i].o # op.a


\* C25 (no use after destroy): no step of an operation touches an object,
\* or its readers list, after destroy_obj has freed it.
C25_NoUseAfterDestroy ==
    \A i \in 1..Len(ev) : ev[i].e # "use_after_free"


-----------------------------------------------------------------------------
\* the threads blocked in pthread_mutex_lock (write_to_obj line 320,
\* write_obj_data line 462), and the thread each of them waits for
LockPc == {"wto_lock", "wod_lock"}
BodyPc == {"wto_body", "wod_body"}
Held(t) == {o \in Objs : bufLock[o] = t}
WaitsFor(t, u) == pc[t] \in LockPc /\ bufLock[tl[t].obj] = u

\* C26 (deadlock freedom of the buffer locks): under every interleaving no
\* thread holds two bufLocks, a thread that asks for a bufLock holds none (so
\* it neither re-acquires its own nor nests two), a bufLock is held only
\* inside the critical section of write_to_obj or write_obj_data (it is
\* released before the operation returns, goes on to the next reader or calls
\* close_obj), and therefore whoever a thread waits for is itself not waiting.
C26_NoLockDeadlock ==
    \A t \in Threads :
        /\ Cardinality(Held(t)) <= 1
        /\ pc[t] \in LockPc => Held(t) = {}
        /\ Held(t) # {} => pc[t] \in BodyPc /\ Held(t) = {tl[t].obj}
        /\ \A u \in Threads : WaitsFor(t, u) => pc[u] \in BodyPc /\ u # t

\* the I/O thread is blocked on the bufLock the orchestration thread holds
\* while it appends the steal notice
C26_Witness ==
    /\ ~crashed
    /\ WaitsFor("t2", "t1")
    /\ pc["t1"] = "wod_body" /\ tl["t1"].ret = "link_close"

=============================================================================
